---- MODULE Spec2Model ----
(***************************************************************************)
(* powdr: the witness solver (commit_evaluator/evaluator.rs) and the       *)
(* semantic analyzer (analyzer/mod.rs) as state machines.                  *)
(*                                                                         *)
(*   Spec          the solver, driven row by row over bounded programs     *)
(*   SpecShift     the solver on the shift scenario x' - x - 1 = 0         *)
(*   SpecAbsorb    the solver on identities that fail while a column is    *)
(*                 unknown and hold once it is known                       *)
(*   SpecAnalyzer  the analyzer, fed statement by statement                *)
(*   SpecConstants the analyzer on constants, identities and namespaces    *)
(*   SpecInclude   the analyzer on file systems with includes              *)
(***************************************************************************)
EXTENDS Integers, Sequences, FiniteSets, TLC

VARIABLES
    \* Evaluator fields (evaluator.rs:15-32)
    fixed_cols,       \* fixed_data.fixed_cols: name -> vector of values
    witness_cols,     \* fixed_data.witness_cols: the columns, in declaration order
    identities,       \* Vec<&Identity>
    machines,         \* Vec<Box<dyn Machine>>
    query_callback,   \* Option<QueryCallback>
    current,          \* Vec<Option<AbstractNumberType>>
    next,             \* Vec<Option<AbstractNumberType>>
    next_row,         \* DegreeType
    failure_reasons,  \* Vec<String>
    progress,         \* bool
    \* compute_next_row: position and locals
    pc,               \* "idle", "identities", "queries", "finish", "aborted"
    identity_failed,  \* the local of compute_next_row
    idx,              \* position of the for loop over self.identities (1-based)
    passes,           \* number of passes of the loop started in this call
    result,           \* the EvalResult handed to handle_eval_result last
    asked,            \* how many machines process_plookup called last
    ret,              \* the row returned by the last call that returned
    \* analyzer Context fields (analyzer/mod.rs:16-29)
    namespace,
    polynomial_degree,
    declarations,
    commit_poly_counter,
    constant_poly_counter,
    intermediate_poly_counter,
    statement,        \* the statement process_file handled last
    processed,        \* number of statements handled
    status,           \* "running" or "failed" (a panic of analyze)
    constants,        \* HashMap<String, ConstantNumberType>, not namespaced
    polynomial_identities,
    plookup_identities,
    included_files,   \* HashSet<PathBuf>
    current_dir,      \* PathBuf
    \* process_file: the file system, the call stack and the files parsed
    files,            \* canonical path -> the statements of the file
    stack,            \* the frames of process_file, innermost last
    parsed            \* the canonical paths handed to parser::parse, in order

solverVars == <<fixed_cols, witness_cols, identities, machines, query_callback, current, next,
                next_row, failure_reasons, progress, pc, identity_failed, idx,
                passes, result, asked, ret>>

fileVars == <<included_files, current_dir, files, stack, parsed>>

analyzerVars == <<namespace, polynomial_degree, declarations, commit_poly_counter,
                  constant_poly_counter, intermediate_poly_counter, statement,
                  processed, status, constants, polynomial_identities,
                  plookup_identities, fileVars>>

vars == <<solverVars, analyzerVars>>

(***************************************************************************)
(* Bounds of the model.                                                    *)
(***************************************************************************)
Degree == 2          \* length of every fixed column of Spec; rows 0..Degree are driven
MaxIdentities == 2   \* longest identity list of Spec
MaxMachines == 2     \* longest machine list of Spec
MaxPasses == 4       \* passes of the fixed-point loop followed per call
ShiftRows == 8       \* rows of the shift scenario (SpecShift)
AbsorbRows == 2      \* last row of the scenarios of SpecAbsorb
MaxStatements == 4   \* statements fed to the analyzer (SpecAnalyzer)
MaxFileLen == 2      \* statements of the root file (SpecInclude)
MaxDepth == 3        \* nested calls of process_file followed (SpecInclude)

(***************************************************************************)
(* Option<T>: None and Some(v).                                            *)
(***************************************************************************)
None == <<>>

Some(v) == <<v>>

(***************************************************************************)
(* Field arithmetic of AbstractNumberType values.                          *)
(***************************************************************************)
FieldMod == 11

Field == 0 .. (FieldMod - 1)

FAdd(a, b) == (a + b) % FieldMod

FSub(a, b) == (a - b) % FieldMod

FMul(a, b) == (a * b) % FieldMod

FNeg(a) == (0 - a) % FieldMod

FInv(c) == CHOOSE i \in Field : (i * c) % FieldMod = 1

(***************************************************************************)
(* FixedData: the witness columns, in declaration order.                   *)
(***************************************************************************)
NumWitness == Len(witness_cols)

WitnessId == 0 .. (NumWitness - 1)

\* fixed_data.witness_ids: name -> id
witness_ids == [n \in {witness_cols[i].name : i \in 1 .. NumWitness} |->
                   (CHOOSE i \in 1 .. NumWitness : witness_cols[i].name = n) - 1]

\* WitnessColumn: ids follow the declaration order; column y carries a query
WitnessColumns(names) ==
    [i \in 1 .. Len(names) |-> [name |-> names[i], id |-> i - 1, query |-> (names[i] = "y")]]

AllUnknown == [id \in WitnessId |-> None]

(***************************************************************************)
(* AffineExpression (4.2): sum of coefficients[id] * x_id, plus offset.    *)
(***************************************************************************)
AffConst(k) == [coefficients |-> [id \in WitnessId |-> 0], offset |-> k]

from_wittness_poly_value(i) ==
    [coefficients |-> [id \in WitnessId |-> IF id = i THEN 1 ELSE 0], offset |-> 0]

AffAdd(a, b) ==
    [coefficients |-> [id \in WitnessId |-> FAdd(a.coefficients[id], b.coefficients[id])],
     offset |-> FAdd(a.offset, b.offset)]

AffSub(a, b) ==
    [coefficients |-> [id \in WitnessId |-> FSub(a.coefficients[id], b.coefficients[id])],
     offset |-> FSub(a.offset, b.offset)]

AffMul(a, k) ==
    [coefficients |-> [id \in WitnessId |-> FMul(a.coefficients[id], k)],
     offset |-> FMul(a.offset, k)]

nonzero_coefficients(a) == {id \in WitnessId : a.coefficients[id] # 0}

is_constant(a) == nonzero_coefficients(a) = {}

constant_value(a) == IF is_constant(a) THEN Some(a.offset) ELSE None

is_invalid(a) == is_constant(a) /\ a.offset # 0

\* c * x + k = 0  <=>  x = -k / c
solve(a) ==
    IF Cardinality(nonzero_coefficients(a)) = 1
    THEN LET id == CHOOSE i \in WitnessId : a.coefficients[i] # 0
         IN  Some(<<id, FMul(FNeg(a.offset), FInv(a.coefficients[id]))>>)
    ELSE None

(***************************************************************************)
(* Results: Ok(v), Err(e); a Rust panic inside an evaluation is Panicked.  *)
(***************************************************************************)
Ok(v) == [ok |-> TRUE, v |-> v]

Err(e) == [ok |-> FALSE, err |-> e]

ErrFormatted(e, a) == [ok |-> FALSE, err |-> e, formatted |-> a]

Panicked == [ok |-> FALSE, err |-> "panic: index out of bounds"]

IsPanic(r) == r = Panicked

(***************************************************************************)
(* Expressions and identities.                                             *)
(***************************************************************************)
Number(v) == [t |-> "Number", v |-> v]

PolynomialReference(name, nxt) == [t |-> "PolynomialReference", name |-> name, next |-> nxt]

BinaryOperation(l, op, r) == [t |-> "BinaryOperation", l |-> l, op |-> op, r |-> r]

PolynomialIdentity(e) ==
    [kind |-> "Polynomial", left |-> [selector |-> Some(e), expressions |-> <<>>]]

LookupIdentity(kind, selector, expressions) ==
    [kind |-> kind, left |-> [selector |-> selector, expressions |-> expressions]]

(***************************************************************************)
(* EvaluationData::value (evaluator.rs:343-387).                           *)
(***************************************************************************)
\* The index into a fixed column's values, as the code computes it.
FixedRow(name, nxt, evaluate_row) ==
    LET degree == Len(fixed_cols[name])
        row == IF evaluate_row = "Current"
               THEN (next_row + degree - 1) % degree
               ELSE next_row
    IN  IF nxt THEN (row + 1) % degree ELSE row

\* values[row as usize]: an index outside the vector panics.
FixedValue(name, nxt, evaluate_row) ==
    LET row == FixedRow(name, nxt, evaluate_row)
    IN  IF row < Len(fixed_cols[name])
        THEN Ok(AffConst(fixed_cols[name][row + 1]))
        ELSE Panicked

WitnessValue_CurrentReadsNext(id, nxt, evaluate_row) ==
    IF nxt /\ evaluate_row = "Next" THEN Err("NextNextRow")
    ELSE Ok(IF next[id] # None THEN AffConst(next[id][1]) ELSE from_wittness_poly_value(id))

WitnessValue_NextNextSymbolic(id, nxt, evaluate_row) ==
    IF (~nxt) /\ evaluate_row = "Current"
    THEN IF current[id] # None THEN Ok(AffConst(current[id][1])) ELSE Err("PreviousValueUnknown")
    ELSE Ok(IF next[id] # None THEN AffConst(next[id][1]) ELSE from_wittness_poly_value(id))

WitnessValue(id, nxt, evaluate_row) ==
    CASE (~nxt) /\ evaluate_row = "Current" ->
            IF current[id] # None
            THEN Ok(AffConst(current[id][1]))
            ELSE Err("PreviousValueUnknown")
      [] ((~nxt) /\ evaluate_row = "Next") \/ (nxt /\ evaluate_row = "Current") ->
            Ok(IF next[id] # None
               THEN AffConst(next[id][1])
               ELSE from_wittness_poly_value(id))
      [] nxt /\ evaluate_row = "Next" ->
            Err("NextNextRow")

value(name, nxt, evaluate_row) ==
    IF name \in DOMAIN witness_ids
    THEN WitnessValue(witness_ids[name], nxt, evaluate_row)
    ELSE FixedValue(name, nxt, evaluate_row)

(***************************************************************************)
(* ExpressionEvaluator::evaluate (4.3) and contains_next_ref.              *)
(***************************************************************************)
RECURSIVE evaluate(_, _)
evaluate(expr, evaluate_row) ==
    CASE expr.t = "Number" -> Ok(AffConst(expr.v % FieldMod))
      [] expr.t = "PolynomialReference" -> value(expr.name, expr.next, evaluate_row)
      [] expr.t = "BinaryOperation" ->
            LET l == evaluate(expr.l, evaluate_row)
            IN  IF ~l.ok THEN l
                ELSE LET r == evaluate(expr.r, evaluate_row)
                     IN  IF ~r.ok THEN r
                         ELSE CASE expr.op = "+" -> Ok(AffAdd(l.v, r.v))
                                [] expr.op = "-" -> Ok(AffSub(l.v, r.v))
                                [] expr.op = "*" ->
                                     IF is_constant(l.v) THEN Ok(AffMul(r.v, l.v.offset))
                                     ELSE IF is_constant(r.v) THEN Ok(AffMul(l.v, r.v.offset))
                                     ELSE Err("NonLinear")

RECURSIVE contains_next_ref(_)
contains_next_ref(expr) ==
    CASE expr.t = "Number" -> FALSE
      [] expr.t = "PolynomialReference" -> expr.next
      [] expr.t = "BinaryOperation" -> contains_next_ref(expr.l) \/ contains_next_ref(expr.r)

(***************************************************************************)
(* Evaluator::process_polynomial_identity (evaluator.rs:222-246).          *)
(***************************************************************************)
PolynomialRow_AlwaysNext(identity) == "Next"

PolynomialRow(identity) == IF contains_next_ref(identity) THEN "Current" ELSE "Next"

process_polynomial_identity(identity) ==
    LET evaluated == evaluate(identity, PolynomialRow(identity))
    IN  IF ~evaluated.ok THEN evaluated
        ELSE IF constant_value(evaluated.v) = Some(0) THEN Ok(<<>>)
        ELSE IF solve(evaluated.v) # None THEN Ok(<<solve(evaluated.v)[1]>>)
        ELSE IF is_invalid(evaluated.v)
             THEN ErrFormatted("Constraint is invalid", evaluated.v)
             ELSE ErrFormatted("Could not solve expression", evaluated.v)

(***************************************************************************)
(* Machine::process_plookup (4.4): the machines of the model.              *)
(*   NotApplicable  does not recognize the lookup                          *)
(*   Error          recognizes it and cannot satisfy it                    *)
(*   Assign         asserts (id, value) on every call                      *)
(*   AssignUnknown  asserts (id, value) while left still holds x_id        *)
(***************************************************************************)
MachineResponse(m, left) ==
    CASE m.kind = "NotApplicable" -> [t |-> "NotApplicable"]
      [] m.kind = "Error" -> [t |-> "Error"]
      [] m.kind = "Assign" -> [t |-> "Assignments", assignments |-> <<<<m.id, m.value>>>>]
      [] m.kind = "AssignUnknown" ->
            IF \E i \in 1 .. Len(left) : left[i].ok /\ left[i].v.coefficients[m.id] # 0
            THEN [t |-> "Assignments", assignments |-> <<<<m.id, m.value>>>>]
            ELSE [t |-> "Assignments", assignments |-> <<>>]

(***************************************************************************)
(* Evaluator::process_plookup (evaluator.rs:248-289).                      *)
(***************************************************************************)
RECURSIVE QueryMachines_Reversed(_, _)
QueryMachines_Reversed(i, left) ==
    IF i > Len(machines)
    THEN [result |-> Err("Could not find a matching machine for the lookup."), asked |-> i - 1]
    ELSE LET r == MachineResponse(machines[Len(machines) + 1 - i], left)
         IN  CASE r.t = "Error" -> [result |-> Err("machine error"), asked |-> i]
               [] r.t = "Assignments" -> [result |-> Ok(r.assignments), asked |-> i]
               [] r.t = "NotApplicable" -> QueryMachines_Reversed(i + 1, left)

RECURSIVE QueryMachines_SkipsErrors(_, _)
QueryMachines_SkipsErrors(i, left) ==
    IF i > Len(machines)
    THEN [result |-> Err("Could not find a matching machine for the lookup."), asked |-> i - 1]
    ELSE LET r == MachineResponse(machines[i], left)
         IN  CASE r.t = "Assignments" -> [result |-> Ok(r.assignments), asked |-> i]
               [] r.t \in {"Error", "NotApplicable"} -> QueryMachines_SkipsErrors(i + 1, left)

\* for m in &mut self.machines, from machine i on
RECURSIVE QueryMachines(_, _)
QueryMachines(i, left) ==
    IF i > Len(machines)
    THEN [result |-> Err("Could not find a matching machine for the lookup."), asked |-> i - 1]
    ELSE LET r == MachineResponse(machines[i], left)
         IN  CASE r.t = "Error" -> [result |-> Err("machine error"), asked |-> i]
               [] r.t = "Assignments" -> [result |-> Ok(r.assignments), asked |-> i]
               [] r.t = "NotApplicable" -> QueryMachines(i + 1, left)

SelectorGate_NonzeroProceeds(identity) ==
    IF identity.left.selector = None THEN [gate |-> "proceed"]
    ELSE LET v == evaluate(identity.left.selector[1], "Next")
         IN  IF ~v.ok THEN [gate |-> "error", result |-> v]
             ELSE IF constant_value(v.v) = Some(0) THEN [gate |-> "skip"]
             ELSE IF constant_value(v.v) # None THEN [gate |-> "proceed"]
             ELSE [gate |-> "error",
                   result |-> ErrFormatted("Value of the selector on the left hand side unknown or not boolean", v.v)]

\* the selector gate: "skip", "proceed", or the error returned
SelectorGate(identity) ==
    IF identity.left.selector = None THEN [gate |-> "proceed"]
    ELSE LET v == evaluate(identity.left.selector[1], "Next")
         IN  IF ~v.ok THEN [gate |-> "error", result |-> v]
             ELSE IF constant_value(v.v) = Some(0) THEN [gate |-> "skip"]
             ELSE IF constant_value(v.v) = Some(1) THEN [gate |-> "proceed"]
             ELSE [gate |-> "error",
                   result |-> ErrFormatted("Value of the selector on the left hand side unknown or not boolean", v.v)]

LeftValues(identity) ==
    [i \in 1 .. Len(identity.left.expressions) |-> evaluate(identity.left.expressions[i], "Next")]

process_plookup(identity) ==
    LET g == SelectorGate(identity)
    IN  CASE g.gate = "skip" -> [result |-> Ok(<<>>), asked |-> 0]
          [] g.gate = "error" -> [result |-> g.result, asked |-> 0]
          [] g.gate = "proceed" ->
                LET left == LeftValues(identity)
                IN  IF \E i \in 1 .. Len(left) : IsPanic(left[i])
                    THEN [result |-> Panicked, asked |-> 0]
                    ELSE QueryMachines(1, left)

\* the match on identity.kind (evaluator.rs:82-90)
MatchIdentityKind(identity) ==
    CASE identity.kind = "Polynomial" ->
            [result |-> process_polynomial_identity(identity.left.selector[1]), asked |-> 0]
      [] identity.kind \in {"Plookup", "Permutation"} -> process_plookup(identity)
      [] OTHER -> [result |-> Err("Unsupported lookup type"), asked |-> 0]

\* map_err (evaluator.rs:91-97): "No progress on {identity}: {err}"
NoProgressOn(i, r) ==
    IF r.ok \/ IsPanic(r) THEN r
    ELSE [ok |-> FALSE, err |-> "No progress on", identity |-> i, cause |-> r]

ProcessIdentity(i) ==
    LET r == MatchIdentityKind(identities[i])
    IN  [result |-> NoProgressOn(i, r.result), asked |-> r.asked]

(***************************************************************************)
(* Evaluator::handle_eval_result (evaluator.rs:291-303).                   *)
(***************************************************************************)
RECURSIVE ApplyAssignments(_, _)
ApplyAssignments(nxt, assignments) ==
    IF assignments = <<>> THEN nxt
    ELSE ApplyAssignments([nxt EXCEPT ![Head(assignments)[1]] = Some(Head(assignments)[2])],
                          Tail(assignments))

NextAfter_Deferred(nxt, r) == nxt

NextAfter(nxt, r) == IF r.ok THEN ApplyAssignments(nxt, r.v) ELSE nxt

ProgressAfter(p, r) == p \/ (r.ok /\ r.v # <<>>)

ReasonsAfter(reasons, r) == IF r.ok THEN reasons ELSE Append(reasons, r)

(***************************************************************************)
(* Evaluator::process_witness_query and the query loop                     *)
(* (evaluator.rs:103-113, 185-195).  The callback of the model answers     *)
(* 5 on row 0 and has no answer on any other row.                          *)
(***************************************************************************)
CallbackAnswer(column) == IF next_row = 0 THEN Some(5) ELSE None

process_witness_query(column) ==
    LET answer == CallbackAnswer(column)
    IN  IF answer # None THEN Ok(<<<<column.id, answer[1]>>>>)
        ELSE Err("No query answer")

has_known_next_value(nxt, id) == nxt[id] # None

\* the loop over self.witness_cols from column i on; st = [next, progress, failure_reasons]
RECURSIVE QueryLoop(_, _)
QueryLoop(i, st) ==
    IF i > NumWitness THEN st
    ELSE LET column == witness_cols[i]
         IN  IF (~has_known_next_value(st.next, column.id)) /\ column.query
             THEN LET r == process_witness_query(column)
                  IN  QueryLoop(i + 1, [next |-> NextAfter(st.next, r),
                                        progress |-> ProgressAfter(st.progress, r),
                                        failure_reasons |-> ReasonsAfter(st.failure_reasons, r)])
             ELSE QueryLoop(i + 1, st)

(***************************************************************************)
(* Evaluator::compute_next_row (evaluator.rs:68-159), step by step.        *)
(***************************************************************************)
\* the driver asks for rows 0, 1, 2, ... in order
NextRowToCompute == IF ret = None THEN 0 ELSE next_row + 1

\* lines 69, 75-78: enter the call and start the first pass
Call(last_row) ==
    /\ pc = "idle"
    /\ NextRowToCompute <= last_row
    /\ next_row' = NextRowToCompute
    /\ identity_failed' = FALSE
    /\ progress' = FALSE
    /\ failure_reasons' = <<>>
    /\ idx' = 1
    /\ passes' = 1
    /\ pc' = IF identities = <<>> THEN "queries" ELSE "identities"
    /\ UNCHANGED <<fixed_cols, witness_cols, identities, machines, query_callback, current, next,
                   result, asked, ret>>
    /\ UNCHANGED analyzerVars

\* lines 81-102: one iteration of the loop over the identities
Identity ==
    /\ pc = "identities"
    /\ LET r == ProcessIdentity(idx)
       IN  /\ result' = r.result
           /\ asked' = r.asked
           /\ IF IsPanic(r.result)
              THEN /\ pc' = "aborted"
                   /\ UNCHANGED <<identity_failed, next, progress, failure_reasons, idx>>
              ELSE /\ identity_failed' = (identity_failed \/ ~r.result.ok)
                   /\ next' = NextAfter(next, r.result)
                   /\ progress' = ProgressAfter(progress, r.result)
                   /\ failure_reasons' = ReasonsAfter(failure_reasons, r.result)
                   /\ idx' = idx + 1
                   /\ pc' = IF idx = Len(identities) THEN "queries" ELSE "identities"
    /\ UNCHANGED <<fixed_cols, witness_cols, identities, machines, query_callback, current, next_row,
                   passes, ret>>
    /\ UNCHANGED analyzerVars

\* lines 114-119: the loop goes on iff there was progress and a column is unknown
LoopContinues(p, nxt) == p /\ \E id \in WitnessId : nxt[id] = None

\* lines 103-120 and 76-78: the query loop, the exit test, the start of the next pass
EndOfPass ==
    /\ pc = "queries"
    /\ LET st0 == [next |-> next, progress |-> progress, failure_reasons |-> failure_reasons]
           st == IF query_callback # None THEN QueryLoop(1, st0) ELSE st0
       IN  /\ next' = st.next
           /\ IF LoopContinues(st.progress, st.next)
              THEN /\ passes < MaxPasses
                   /\ passes' = passes + 1
                   /\ identity_failed' = FALSE
                   /\ progress' = FALSE
                   /\ failure_reasons' = <<>>
                   /\ idx' = 1
                   /\ pc' = IF identities = <<>> THEN "queries" ELSE "identities"
              ELSE /\ progress' = st.progress
                   /\ failure_reasons' = st.failure_reasons
                   /\ pc' = "finish"
                   /\ UNCHANGED <<passes, identity_failed, idx>>
    /\ UNCHANGED <<fixed_cols, witness_cols, identities, machines, query_callback, current, next_row,
                   result, asked, ret>>
    /\ UNCHANGED analyzerVars

ShouldAbort_AnyRow == identity_failed

ShouldAbort_AfterRowOne == identity_failed /\ next_row > 1

ShouldAbort_Never == FALSE

ShouldAbort_OnAnyReason == failure_reasons # <<>> /\ next_row # 0

\* line 123
ShouldAbort == identity_failed /\ next_row # 0

Committed_Zeroed(nxt) == [id \in WitnessId |-> IF nxt[id] # None THEN nxt[id] ELSE Some(0)]

\* lines 150-151: after the swap, current is what next was
Committed(nxt) == nxt

RowValues_DefaultOne(row) == [id \in WitnessId |-> IF row[id] # None THEN row[id][1] ELSE 1]

\* lines 154-157: unwrap_or_default of every entry
RowValues(row) == [id \in WitnessId |-> IF row[id] # None THEN row[id][1] ELSE 0]

\* lines 123-158: panic, or swap, reset next and return the row
Finish ==
    /\ pc = "finish"
    /\ IF ShouldAbort
       THEN /\ pc' = "aborted"
            /\ UNCHANGED <<current, next, ret>>
       ELSE /\ current' = Committed(next)
            /\ next' = AllUnknown
            /\ ret' = Some(RowValues(next))
            /\ pc' = "idle"
    /\ UNCHANGED <<fixed_cols, witness_cols, identities, machines, query_callback, next_row,
                   failure_reasons, progress, identity_failed, idx, passes, result, asked>>
    /\ UNCHANGED analyzerVars

(***************************************************************************)
(* The programs of Spec.                                                   *)
(***************************************************************************)
X == PolynomialReference("x", FALSE)

XNext == PolynomialReference("x", TRUE)

Y == PolynomialReference("y", FALSE)

\* x' - x - 1 = 0
ShiftIdentity == PolynomialIdentity(BinaryOperation(BinaryOperation(XNext, "-", X), "-", Number(1)))

PolynomialLibrary ==
    { ShiftIdentity,
      PolynomialIdentity(BinaryOperation(X, "+", Number(1))),                       \* x + 1 = 0
      PolynomialIdentity(Number(1)),                                                \* 1 = 0
      PolynomialIdentity(BinaryOperation(Y, "-", X)),                               \* y - x = 0
      PolynomialIdentity(BinaryOperation(Y, "-", PolynomialReference("c", FALSE))), \* y - c = 0
      PolynomialIdentity(BinaryOperation(X, "-", PolynomialReference("c", TRUE))) } \* x - c' = 0

LookupLibrary ==
    { LookupIdentity("Plookup", None, <<X>>),
      LookupIdentity("Permutation", Some(PolynomialReference("FIRST", FALSE)), <<X>>),
      LookupIdentity("Plookup", Some(Y), <<X>>) }

IdentityLibrary == PolynomialLibrary \cup LookupLibrary

MachineLibrary ==
    { [kind |-> "NotApplicable"],
      [kind |-> "Error"],
      [kind |-> "Assign", id |-> 0, value |-> 0],
      [kind |-> "AssignUnknown", id |-> 0, value |-> 2] }

\* the lists of at most n distinct elements of S
ListsUpTo(S, n) ==
    {l \in UNION {[1 .. k -> S] : k \in 0 .. n} :
        \A i, j \in 1 .. Len(l) : l[i] = l[j] => i = j}

HasLookup(ids) == \E i \in 1 .. Len(ids) : ids[i].kind # "Polynomial"

\* FIRST = 1, 0, 0, ...; c = 2, 3, 4, ...
FixedColumns(degree) ==
    [n \in {"FIRST", "c"} |->
        [i \in 1 .. degree |-> IF n = "FIRST" THEN (IF i = 1 THEN 1 ELSE 0) ELSE i + 1]]

\* Context::new (mod.rs:133-138)
ContextNew ==
    /\ namespace = "Global"
    /\ polynomial_degree = 0
    /\ declarations = <<>>
    /\ commit_poly_counter = 0
    /\ constant_poly_counter = 0
    /\ intermediate_poly_counter = 0
    /\ statement = None
    /\ processed = 0
    /\ status = "running"
    /\ constants = <<>>
    /\ polynomial_identities = <<>>
    /\ plookup_identities = <<>>
    /\ included_files = {}
    /\ current_dir = ""
    /\ stack = <<>>
    /\ parsed = <<>>

\* the analyzer with no file to read
AnalyzerIdle ==
    /\ ContextNew
    /\ files = <<>>

\* Evaluator::new (evaluator.rs:46-66)
New ==
    /\ current = AllUnknown
    /\ next = AllUnknown
    /\ next_row = 0
    /\ failure_reasons = <<>>
    /\ progress = TRUE
    /\ pc = "idle"
    /\ identity_failed = FALSE
    /\ idx = 1
    /\ passes = 0
    /\ result = Ok(<<>>)
    /\ asked = 0
    /\ ret = None

Init ==
    /\ fixed_cols = FixedColumns(Degree)
    /\ witness_cols = WitnessColumns(<<"x", "y">>)
    /\ identities \in ListsUpTo(IdentityLibrary, MaxIdentities) \ {<<>>}
    /\ machines \in ListsUpTo(MachineLibrary, MaxMachines)
    /\ (~HasLookup(identities)) => machines = <<>>
    /\ query_callback \in {None, Some("callback")}
    /\ New
    /\ AnalyzerIdle

Next ==
    \/ Call(Degree)
    \/ Identity
    \/ EndOfPass
    \/ Finish

Spec == Init /\ [][Next]_vars

(***************************************************************************)
(* The shift scenario: one witness column x, the identity x' - x - 1 = 0   *)
(* and a lookup, selected by FIRST, whose machine assigns x = 0.           *)
(***************************************************************************)
SeedLookup == LookupIdentity("Plookup", Some(PolynomialReference("FIRST", FALSE)), <<X>>)

InitShift ==
    /\ fixed_cols = FixedColumns(ShiftRows)
    /\ witness_cols = WitnessColumns(<<"x">>)
    /\ identities \in {<<ShiftIdentity, SeedLookup>>, <<SeedLookup, ShiftIdentity>>}
    /\ machines \in {<<[kind |-> k, id |-> 0, value |-> 0]>> : k \in {"Assign", "AssignUnknown"}}
    /\ query_callback \in {None, Some("callback")}
    /\ New
    /\ AnalyzerIdle

NextShift ==
    \/ Call(ShiftRows - 1)
    \/ Identity
    \/ EndOfPass
    \/ Finish

SpecShift == InitShift /\ [][NextShift]_vars

(***************************************************************************)
(* Identities that fail while a column is unknown: y - x = 0 next to       *)
(* x + 1 = 0, and a lookup selected by x next to x - 1 = 0.                *)
(***************************************************************************)
YMinusX == PolynomialIdentity(BinaryOperation(Y, "-", X))

XPlusOne == PolynomialIdentity(BinaryOperation(X, "+", Number(1)))

XMinusOne == PolynomialIdentity(BinaryOperation(X, "-", Number(1)))

SelectedByX == LookupIdentity("Plookup", Some(X), <<X>>)

InitAbsorb ==
    /\ fixed_cols = FixedColumns(Degree)
    /\ \/ /\ witness_cols = WitnessColumns(<<"x", "y">>)
          /\ identities \in {<<YMinusX, XPlusOne>>, <<XPlusOne, YMinusX>>}
          /\ machines = <<>>
       \/ /\ witness_cols = WitnessColumns(<<"x">>)
          /\ identities \in {<<SelectedByX, XMinusOne>>, <<XMinusOne, SelectedByX>>}
          /\ machines \in {<<[kind |-> k, id |-> 0, value |-> 1]>> :
                               k \in {"Assign", "AssignUnknown"}}
    /\ query_callback \in {None, Some("callback")}
    /\ New
    /\ AnalyzerIdle

NextAbsorb ==
    \/ Call(AbsorbRows)
    \/ Identity
    \/ EndOfPass
    \/ Finish

SpecAbsorb == InitAbsorb /\ [][NextAbsorb]_vars

(***************************************************************************)
(* Properties of the solver.                                               *)
(***************************************************************************)
InCall == pc \in {"identities", "queries", "finish"}

Returned == pc = "idle" /\ ret # None

\* the reasons of the pass that come from a failed identity
IdentityFailures == {i \in 1 .. Len(failure_reasons) : failure_reasons[i].err = "No progress on"}

\* C1: one call of compute_next_row runs at most |witness_cols| + 1 passes of
\* its loop.
C1_PassBound == passes <= NumWitness + 1

\* C2: during one call, a next[id] that holds a value keeps that value in
\* every later state of the call.
C2_NextNeverOverwritten ==
    [][(InCall /\ pc' # "idle") =>
         \A id \in WitnessId : next[id] # None => next'[id] = next[id]]_vars

RECURSIVE References(_)
References(expr) ==
    CASE expr.t = "Number" -> {}
      [] expr.t = "PolynomialReference" -> {expr}
      [] expr.t = "BinaryOperation" -> References(expr.l) \cup References(expr.r)

\* the fixed-column references of the identity about to be evaluated, each with
\* the mode it is evaluated in (a lookup: those of its selector)
EvaluatedFixedRefs ==
    LET identity == identities[idx]
        e == identity.left.selector
        mode == IF identity.kind = "Polynomial" THEN PolynomialRow(e[1]) ELSE "Next"
    IN  IF e = None THEN {}
        ELSE {<<ref, mode>> : ref \in {q \in References(e[1]) : q.name \in DOMAIN fixed_cols}}

\* the row an expression is evaluated on: next_row, or next_row - 1 mod L
EvaluatedOn(mode, L) == IF mode = "Next" THEN next_row ELSE (next_row - 1) % L

\* C3: a fixed column reference c evaluates to c.values[r mod L] and c' to
\* c.values[(r + 1) mod L], r the row the expression is evaluated on, for
\* every row the solver is asked for; the index is inside 0..L-1.
C3_FixedShiftSemantics ==
    pc = "identities" =>
        \A rm \in EvaluatedFixedRefs :
            LET name == rm[1].name
                L == Len(fixed_cols[name])
                r == EvaluatedOn(rm[2], L)
                expected == (r + (IF rm[1].next THEN 1 ELSE 0)) % L
            IN  /\ FixedRow(name, rm[1].next, rm[2]) \in 0 .. (L - 1)
                /\ FixedRow(name, rm[1].next, rm[2]) = expected
                /\ FixedValue(name, rm[1].next, rm[2]) = Ok(AffConst(fixed_cols[name][expected + 1]))

\* C4: on row 0 the call never aborts, whatever identity failed; it commits
\* next and returns it with every unknown column reported as 0.
C4_Row0Tolerance ==
    [][(InCall /\ next_row = 0) =>
         /\ pc' # "aborted"
         /\ pc = "finish" =>
              /\ pc' = "idle"
              /\ current' = next
              /\ ret' # None
              /\ \A id \in WitnessId :
                    ret'[1][id] = IF next[id] = None THEN 0 ELSE next[id][1]]_vars

C4_Witness ==
    /\ Returned
    /\ next_row = 0
    /\ IdentityFailures # {}
    /\ \E id \in WitnessId : current[id] = None /\ ret[1][id] = 0

\* C5: on a row r > 0, a failed identity in the final pass makes the call
\* abort without committing; a polynomial identity that evaluates to a nonzero
\* constant is reported as an invalid constraint, and only such a one is.
C5_FailureIsFatal ==
    /\ [][(pc = "finish" /\ next_row > 0 /\ IdentityFailures # {}) =>
            (pc' = "aborted" /\ current' = current /\ next' = next /\ ret' = ret)]_vars
    /\ [](\A i \in IdentityFailures :
            LET cause == failure_reasons[i].cause
            IN  cause.err \in {"Constraint is invalid", "Could not solve expression"} =>
                   ((cause.err = "Constraint is invalid")
                       <=> (is_constant(cause.formatted) /\ cause.formatted.offset # 0)))

C5_Witness ==
    /\ pc = "aborted"
    /\ next_row = 1
    /\ ret # None
    /\ \E i \in IdentityFailures :
          /\ failure_reasons[i].cause.err = "Constraint is invalid"
          /\ failure_reasons[i].cause.formatted = AffConst(1)

\* C6 as stated: after every call that returns, current holds a known value
\* for every witness column, so that no later evaluation fails with
\* PreviousValueUnknown.
C6_CurrentFullyKnown ==
    /\ Returned => \A id \in WitnessId : current[id] # None
    /\ next_row > 0 =>
          \A i \in IdentityFailures : failure_reasons[i].cause.err # "PreviousValueUnknown"

RECURSIVE ReadsUnknownCurrent(_)
ReadsUnknownCurrent(expr) ==
    CASE expr.t = "Number" -> FALSE
      [] expr.t = "PolynomialReference" ->
            /\ expr.name \in DOMAIN witness_ids
            /\ ~expr.next
            /\ current[witness_ids[expr.name]] = None
      [] expr.t = "BinaryOperation" -> ReadsUnknownCurrent(expr.l) \/ ReadsUnknownCurrent(expr.r)

\* C6, amended: when a call returns, current is next as it was committed and
\* the returned row is current with unknowns reported as 0: a column unknown at
\* commit stays unknown in current, so that an unshifted reference to it
\* evaluated in Current mode (by a polynomial identity of the next call) fails
\* with PreviousValueUnknown.
C6_CurrentMirrorsCommit ==
    /\ [][(pc = "finish" /\ pc' = "idle") =>
            /\ current' = next
            /\ \A id \in WitnessId :
                  ret'[1][id] = IF current'[id] = None THEN 0 ELSE current'[id][1]]_vars
    /\ [][(/\ pc = "identities"
           /\ identities[idx].kind = "Polynomial"
           /\ PolynomialRow(identities[idx].left.selector[1]) = "Current"
           /\ ReadsUnknownCurrent(identities[idx].left.selector[1])) =>
            /\ ~result'.ok
            /\ result'.cause = Err("PreviousValueUnknown")]_vars

C6_Witness ==
    /\ pc = "aborted"
    /\ next_row = 1
    /\ ret # None
    /\ ret[1][0] = 0
    /\ current[0] = None
    /\ \E i \in IdentityFailures : failure_reasons[i].cause = Err("PreviousValueUnknown")

\* the selector of a lookup is absent or evaluates to the constant 1
SelectorOpen(identity) ==
    \/ identity.left.selector = None
    \/ LET v == evaluate(identity.left.selector[1], "Next")
       IN  v.ok /\ constant_value(v.v) = Some(1)

\* C7: for a lookup whose selector is absent or 1, the result of the identity
\* is the Assignments of the first machine, in registration order, that returns
\* Assignments after machines that returned NotApplicable, and these are written
\* to next; if every machine returns NotApplicable the identity fails with
\* "no matching machine".
C7_LookupDispatch ==
    [][(/\ pc = "identities"
        /\ identities[idx].kind \in {"Plookup", "Permutation"}
        /\ SelectorOpen(identities[idx])) =>
         LET left == LeftValues(identities[idx])
             resp == [i \in 1 .. Len(machines) |-> MachineResponse(machines[i], left)]
         IN  /\ (\A i \in 1 .. Len(machines) : resp[i].t = "NotApplicable") =>
                   /\ ~result'.ok
                   /\ result'.cause = Err("Could not find a matching machine for the lookup.")
                   /\ asked' = Len(machines)
                   /\ next' = next
             /\ \A k \in 1 .. Len(machines) :
                   (/\ resp[k].t = "Assignments"
                    /\ \A j \in 1 .. (k - 1) : resp[j].t = "NotApplicable") =>
                       /\ result' = Ok(resp[k].assignments)
                       /\ asked' = k
                       /\ \A a \in 1 .. Len(resp[k].assignments) :
                             next'[resp[k].assignments[a][1]] = Some(resp[k].assignments[a][2])]_vars

C7_Witness ==
    /\ asked = 2
    /\ machines[1].kind = "NotApplicable"
    /\ result.ok
    /\ result.v # <<>>
    /\ next[result.v[1][1]] = Some(result.v[1][2])

\* C9: in the shift scenario the calls for rows 0, 1, 2, ... never abort and
\* return x = 0, 1, 2, ...: the row returned for r > 0 is the row committed for
\* r - 1 plus 1.
C9_ShiftScenario ==
    /\ pc # "aborted"
    /\ Returned => ret[1][0] = next_row % FieldMod
    /\ (InCall /\ next_row > 0) => current[0] = Some((next_row - 1) % FieldMod)

C9_Witness ==
    /\ Returned
    /\ next_row = 7
    /\ ret = Some([id \in {0} |-> 7])
    /\ current = [id \in {0} |-> Some(7)]

\* C14: when a call returns, current is next as it stood at the end of the
\* loop, next is all-unknown again and the returned vector holds, per witness
\* id, the committed value if known and 0 otherwise; next is all-unknown
\* whenever no call is running, so at the start of every call.
C14_CommitStep ==
    /\ [][(pc = "finish" /\ pc' = "idle") =>
            /\ current' = next
            /\ next' = AllUnknown
            /\ DOMAIN ret'[1] = WitnessId
            /\ \A id \in WitnessId :
                  ret'[1][id] = IF next[id] # None THEN next[id][1] ELSE 0]_vars
    /\ [](pc = "idle" => next = AllUnknown)
    /\ [][pc = "idle" /\ pc' # "idle" => next' = AllUnknown]_vars

C14_Witness ==
    /\ Returned
    /\ next_row = 1
    /\ next = AllUnknown
    /\ current[0] # None
    /\ current[0][1] # 0
    /\ ret[1][0] = current[0][1]
    /\ current[1] = None
    /\ ret[1][1] = 0

\* the constant an Option of a row stands for, or the unknown x_id
KnownOrSymbolic(row, id) ==
    IF row[id] # None THEN AffConst(row[id][1]) ELSE from_wittness_poly_value(id)

\* C16: for every witness column p, whatever current and next hold: p in
\* Current mode is the constant current[id], or fails with PreviousValueUnknown
\* when current[id] is unknown; p in Next mode and p' in Current mode are the
\* constant next[id], or 1 * x_id + 0 when next[id] is unknown; p' in Next mode
\* fails with the next-next-row error.
C16_WitnessReference ==
    \A i \in 1 .. NumWitness :
        LET p == witness_cols[i].name
            id == witness_cols[i].id
        IN  /\ value(p, FALSE, "Current") =
                   (IF current[id] = None THEN Err("PreviousValueUnknown")
                    ELSE Ok([coefficients |-> [k \in WitnessId |-> 0],
                             offset |-> current[id][1]]))
            /\ value(p, FALSE, "Next") = Ok(KnownOrSymbolic(next, id))
            /\ value(p, TRUE, "Current") = Ok(KnownOrSymbolic(next, id))
            /\ next[id] = None =>
                   /\ value(p, TRUE, "Current").v.coefficients[id] = 1
                   /\ value(p, TRUE, "Current").v.offset = 0
                   /\ nonzero_coefficients(value(p, FALSE, "Next").v) = {id}
            /\ value(p, TRUE, "Next") = Err("NextNextRow")

C16_Witness ==
    /\ InCall
    /\ next_row = 1
    /\ current[0] = None
    /\ current[1] # None
    /\ next[0] = None
    /\ next[1] # None
    /\ ~result.ok
    /\ result.cause = Err("PreviousValueUnknown")

\* C17: a polynomial identity E = 0 is evaluated in Current mode if E holds a
\* shifted reference and in Next mode otherwise.  With A the affine result: a
\* constant 0 gives no assignment; exactly one nonzero coefficient c, of x_id,
\* gives the one assignment (id, v) with c * v + k = 0; a nonzero constant
\* fails as an invalid constraint; anything else fails as not solvable; an
\* error of the evaluation is the error of the identity.  No column whose
\* next[id] is known is assigned.
C17_PolynomialIdentity ==
    [][(pc = "identities" /\ identities[idx].kind = "Polynomial") =>
         LET E == identities[idx].left.selector[1]
             mode == IF \E ref \in References(E) : ref.next THEN "Current" ELSE "Next"
             A == evaluate(E, mode)
             unknowns == IF A.ok THEN {id \in WitnessId : A.v.coefficients[id] # 0} ELSE {}
         IN  /\ \A id \in WitnessId : next[id] # None => next'[id] = next[id]
             /\ IsPanic(A) => result' = A
             /\ (~A.ok /\ ~IsPanic(A)) => (~result'.ok /\ result'.cause = A /\ next' = next)
             /\ A.ok =>
                   CASE unknowns = {} /\ A.v.offset = 0 ->
                           result' = Ok(<<>>) /\ next' = next
                     [] unknowns = {} /\ A.v.offset # 0 ->
                           /\ ~result'.ok
                           /\ result'.cause.err = "Constraint is invalid"
                           /\ next' = next
                     [] Cardinality(unknowns) = 1 ->
                           LET id == CHOOSE u \in unknowns : TRUE
                           IN  /\ result'.ok
                               /\ Len(result'.v) = 1
                               /\ result'.v[1][1] = id
                               /\ result'.v[1][2] \in Field
                               /\ (A.v.coefficients[id] * result'.v[1][2] + A.v.offset)
                                     % FieldMod = 0
                               /\ next[id] = None
                               /\ next' = [next EXCEPT ![id] = Some(result'.v[1][2])]
                     [] OTHER ->
                           /\ ~result'.ok
                           /\ result'.cause.err = "Could not solve expression"
                           /\ next' = next]_vars

C17_Witness ==
    /\ InCall
    /\ idx > 1
    /\ identities[idx - 1] = ShiftIdentity
    /\ next_row = 1
    /\ current[0] = Some(10)
    /\ result = Ok(<<<<0, 0>>>>)
    /\ next[0] = Some(0)

\* C18: for a Plookup or Permutation identity with a left selector, the
\* selector is evaluated in Next mode; the constant 0 makes the identity succeed
\* with no assignment and no machine called; the constant 1 has the machines
\* queried; any other constant, an unknown, or an error of the evaluation makes
\* the identity fail with no machine called.
C18_SelectorGate ==
    [][(/\ pc = "identities"
        /\ identities[idx].kind \in {"Plookup", "Permutation"}
        /\ identities[idx].left.selector # None) =>
         LET v == evaluate(identities[idx].left.selector[1], "Next")
             constant == v.ok /\ \A id \in WitnessId : v.v.coefficients[id] = 0
         IN  CASE constant /\ v.v.offset = 0 ->
                    result' = Ok(<<>>) /\ asked' = 0 /\ next' = next
               [] constant /\ v.v.offset = 1 ->
                    /\ machines # <<>> => asked' >= 1
                    /\ machines = <<>> =>
                          result'.cause = Err("Could not find a matching machine for the lookup.")
               [] v.ok /\ ~(constant /\ v.v.offset \in {0, 1}) ->
                    /\ ~result'.ok
                    /\ result'.cause.err
                          = "Value of the selector on the left hand side unknown or not boolean"
                    /\ asked' = 0
                    /\ next' = next
               [] ~v.ok ->
                    ~result'.ok /\ asked' = 0 /\ next' = next]_vars

C18_Witness ==
    /\ InCall
    /\ idx > 1
    /\ identities[idx - 1] = LookupIdentity("Permutation", Some(PolynomialReference("FIRST", FALSE)), <<X>>)
    /\ next_row = 1
    /\ machines # <<>>
    /\ machines[1].kind = "Assign"
    /\ result = Ok(<<>>)
    /\ asked = 0
    /\ next[0] = None

\* every identity succeeds when it is evaluated on the values next holds now
SatisfiedByNext == \A i \in 1 .. Len(identities) : ProcessIdentity(i).result.ok

\* C15: on a row r > 0, when the loop has ended and every identity is satisfied
\* by the final next values, the call does not abort, whatever identity failed
\* earlier while a column was still unknown.
C15_ErrorsAbsorbed ==
    [][(pc = "finish" /\ next_row > 0 /\ SatisfiedByNext) => pc' = "idle"]_vars

\* the value of an expression on the row base of the trace, where row next_row
\* holds the values this and row next_row - 1 the values prev, and a fixed
\* column of length L holds values[r mod L] on row r
RECURSIVE ValueOnRow(_, _, _, _)
ValueOnRow(expr, base, prev, this) ==
    CASE expr.t = "Number" -> expr.v % FieldMod
      [] expr.t = "PolynomialReference" ->
            LET row == base + (IF expr.next THEN 1 ELSE 0)
            IN  IF expr.name \in DOMAIN witness_ids
                THEN (IF row = next_row THEN this ELSE prev)[witness_ids[expr.name]]
                ELSE fixed_cols[expr.name][(row % Len(fixed_cols[expr.name])) + 1]
      [] expr.t = "BinaryOperation" ->
            LET l == ValueOnRow(expr.l, base, prev, this)
                r == ValueOnRow(expr.r, base, prev, this)
            IN  CASE expr.op = "+" -> (l + r) % FieldMod
                  [] expr.op = "-" -> (l - r) % FieldMod
                  [] expr.op = "*" -> (l * r) % FieldMod

\* E = 0 holds on the rows next_row - 1 and next_row: an identity with a shifted
\* reference relates row next_row - 1 to row next_row, any other is about row
\* next_row alone
HoldsOnRows(E, prev, this) ==
    LET base == IF \E ref \in References(E) : ref.next THEN next_row - 1 ELSE next_row
    IN  ValueOnRow(E, base, prev, this) = 0

\* the solver has polynomial identities only, no machine and no query callback
PolynomialOnly ==
    /\ machines = <<>>
    /\ query_callback = None
    /\ \A i \in 1 .. Len(identities) : identities[i].kind = "Polynomial"

\* C21: with polynomial identities only, when a call for a row r > 0 returns,
\* every identity evaluates to zero with the returned row as row r and the row
\* returned before as row r - 1.
C21_ReturnedRowSatisfies ==
    [][(pc = "finish" /\ pc' = "idle" /\ next_row > 0 /\ PolynomialOnly) =>
         \A i \in 1 .. Len(identities) :
            HoldsOnRows(identities[i].left.selector[1], ret[1], ret'[1])]_vars

C21_Witness ==
    /\ Returned
    /\ next_row = 1
    /\ PolynomialOnly
    /\ identities = <<YMinusX, XPlusOne>>
    /\ passes = 2
    /\ ret[1] = [id \in {0, 1} |-> 10]

\* a column with a query that the callback is asked for in the query step
Queried(id) ==
    /\ query_callback # None
    /\ \E i \in 1 .. NumWitness : witness_cols[i].id = id /\ witness_cols[i].query

\* C22: in every pass the identities are evaluated in list order, from the
\* first to the last; each is evaluated on next as the identities before it
\* left it, and its assignments are in next in the very next state, before the
\* following identity or the query step; the query step asks for no column
\* that an identity of the pass has made known.
C22_OrderInsidePass ==
    /\ [](pc = "identities" => idx \in 1 .. Len(identities))
    /\ [][(pc # "identities" /\ pc' = "identities") => idx' = 1]_vars
    /\ [][(pc = "identities" /\ pc' # "aborted") =>
            /\ idx' = idx + 1
            /\ pc' = IF idx = Len(identities) THEN "queries" ELSE "identities"
            /\ result' = ProcessIdentity(idx).result
            /\ result'.ok =>
                  /\ \A a \in 1 .. Len(result'.v) :
                        next'[result'.v[a][1]] = Some(result'.v[a][2])
                  /\ \A id \in WitnessId :
                        (\A a \in 1 .. Len(result'.v) : result'.v[a][1] # id) =>
                           next'[id] = next[id]
            /\ ~result'.ok => next' = next]_vars
    /\ [][pc = "queries" =>
            \A id \in WitnessId :
               (next[id] # None \/ ~Queried(id)) => next'[id] = next[id]]_vars

C22_Witness ==
    /\ pc = "queries"
    /\ next_row = 1
    /\ passes = 1
    /\ identities = <<XPlusOne, YMinusX>>
    /\ result = Ok(<<<<1, 10>>>>)
    /\ next = [id \in {0, 1} |-> Some(10)]
    /\ ~identity_failed

\* the identity about to be evaluated is a lookup that reaches the machines
ReachesMachines ==
    /\ pc = "identities"
    /\ identities[idx].kind \in {"Plookup", "Permutation"}
    /\ SelectorGate(identities[idx]).gate = "proceed"
    /\ \A i \in 1 .. Len(LeftValues(identities[idx])) : ~IsPanic(LeftValues(identities[idx])[i])

\* what each registered machine answers to the lookup about to be evaluated
Responses ==
    [k \in 1 .. Len(machines) |-> MachineResponse(machines[k], LeftValues(identities[idx]))]

QueryFailures == {i \in 1 .. Len(failure_reasons) : failure_reasons[i].err = "No query answer"}

\* C24: on any row, when no identity failed in the last pass, the call
\* returns, and the returned row holds 0 for every column still unknown and
\* the solved value for every other column; in particular a call whose only
\* failures are unanswered queries returns, and a call that aborts has a
\* failed identity in its last pass.
C24_SilentZero ==
    /\ [][(pc = "finish" /\ IdentityFailures = {}) =>
            /\ pc' = "idle"
            /\ ret' # None
            /\ \A id \in WitnessId :
                  ret'[1][id] = IF next[id] = None THEN 0 ELSE next[id][1]]_vars
    /\ [][(pc = "finish" /\ pc' = "aborted") =>
            (IdentityFailures # {} /\ next_row # 0)]_vars

C24_Witness ==
    /\ Returned
    /\ next_row = 1
    /\ query_callback # None
    /\ QueryFailures # {}
    /\ IdentityFailures = {}
    /\ \E id \in WitnessId : Queried(id) /\ current[id] = None /\ ret[1][id] = 0

(***************************************************************************)
(* The analyzer: Context (analyzer/mod.rs:132-245).                        *)
(***************************************************************************)
namespaced_ref_IgnoresExplicit(ns, name) == namespace \o "." \o name

\* Context::namespaced_ref (mod.rs:243-245)
namespaced_ref(ns, name) == (IF ns # None THEN ns[1] ELSE namespace) \o "." \o name

\* Context::namespaced (mod.rs:239-241)
namespaced(name) == namespaced_ref(None, name)

(***************************************************************************)
(* ast::Expression and Expression (mod.rs:107-123).  Number and            *)
(* BinaryOperation are shared with the solver; the operators are           *)
(* "+", "-", "*", "/" and "^".                                             *)
(***************************************************************************)
Constant(name) == [t |-> "Constant", name |-> name]

UnaryOperation(op, e) == [t |-> "UnaryOperation", op |-> op, e |-> e]

\* ast::PolynomialReference: namespace and index are Options
AstPolynomialReference(ns, name, index, nxt) ==
    [t |-> "PolynomialReference", namespace |-> ns, name |-> name, index |-> index, next |-> nxt]

\* PolynomialReference (mod.rs:117-123): the name is absolute
AnalyzedReference(name, index, nxt) ==
    [t |-> "PolynomialReference", name |-> name, index |-> index, next |-> nxt]

(***************************************************************************)
(* Context::evaluate_expression and evaluate_binary_operation              *)
(* (mod.rs:288-324).  The result is Ok(Some(v)), Ok(None), or Err of a     *)
(* panic.  The numbers of the model stay far inside ConstantNumberType.    *)
(***************************************************************************)
Abs(a) == IF a < 0 THEN 0 - a ELSE a

\* left / right of Rust: truncation towards zero
TruncDiv(a, b) ==
    LET q == Abs(a) \div Abs(b)
    IN  IF (a < 0) # (b < 0) THEN 0 - q ELSE q

RECURSIVE Pow(_, _)
Pow(a, n) == IF n = 0 THEN 1 ELSE a * Pow(a, n - 1)

\* the match on op (mod.rs:311-320)
ApplyOperator(left, op, right) ==
    CASE op = "+" -> Ok(Some(left + right))
      [] op = "-" -> Ok(Some(left - right))
      [] op = "*" -> Ok(Some(left * right))
      [] op = "/" -> IF right = 0 THEN Err("panic: attempt to divide by zero")
                     ELSE Ok(Some(TruncDiv(left, right)))
      [] op = "^" -> IF right < 0 THEN Err("panic: attempt to multiply with overflow")
                     ELSE Ok(Some(Pow(left, right)))

RECURSIVE evaluate_expression(_)
RECURSIVE evaluate_binary_operation(_, _, _)
evaluate_expression(expr) ==
    CASE expr.t = "Constant" ->
            IF expr.name \in DOMAIN constants THEN Ok(Some(constants[expr.name]))
            ELSE Err("panic: key not found")
      [] expr.t = "PolynomialReference" -> Ok(None)
      [] expr.t = "Number" -> Ok(Some(expr.v))
      [] expr.t = "BinaryOperation" -> evaluate_binary_operation(expr.l, expr.op, expr.r)
      [] expr.t = "UnaryOperation" -> Err("panic: not yet implemented")

\* both operands are evaluated, left first, before the match
evaluate_binary_operation(left, op, right) ==
    LET l == evaluate_expression(left)
    IN  IF ~l.ok THEN l
        ELSE LET r == evaluate_expression(right)
             IN  IF ~r.ok THEN r
                 ELSE IF l.v # None /\ r.v # None THEN ApplyOperator(l.v[1], op, r.v[1])
                 ELSE Ok(None)

\* evaluate_expression(..).unwrap()
Unwrap(r) ==
    IF ~r.ok THEN r
    ELSE IF r.v = None THEN Err("panic: called Option::unwrap() on a None value")
    ELSE Ok(r.v[1])

(***************************************************************************)
(* Context::process_expression (mod.rs:258-286): Ok(Expression), or Err    *)
(* of a panic.                                                             *)
(***************************************************************************)
\* poly.index.as_ref().map(|i| self.evaluate_expression(i).unwrap() as u64)
ProcessIndex(index) ==
    IF index = None THEN Ok(None)
    ELSE LET i == Unwrap(evaluate_expression(index[1]))
         IN  IF i.ok THEN Ok(Some(i.v)) ELSE i

RECURSIVE process_expression(_)
process_expression(expr) ==
    CASE expr.t = "Constant" -> Ok(Constant(expr.name))
      [] expr.t = "PolynomialReference" ->
            LET index == ProcessIndex(expr.index)
            IN  IF ~index.ok THEN index
                ELSE Ok(AnalyzedReference(namespaced_ref(expr.namespace, expr.name),
                                          index.v, expr.next))
      [] expr.t = "Number" -> Ok(Number(expr.v))
      [] expr.t = "BinaryOperation" ->
            LET folded == evaluate_binary_operation(expr.l, expr.op, expr.r)
            IN  IF ~folded.ok THEN folded
                ELSE IF folded.v # None THEN Ok(Number(folded.v[1]))
                ELSE LET l == process_expression(expr.l)
                     IN  IF ~l.ok THEN l
                         ELSE LET r == process_expression(expr.r)
                              IN  IF ~r.ok THEN r
                                  ELSE Ok(BinaryOperation(l.v, expr.op, r.v))
      [] expr.t = "UnaryOperation" -> Err("panic: not yet implemented")

Counter_CommitOnly(counters, polynomial_type) == counters.commit

\* the kind-specific counter (mod.rs:193-197)
Counter(counters, polynomial_type) ==
    CASE polynomial_type = "Committed" -> counters.commit
      [] polynomial_type = "Constant" -> counters.constant
      [] polynomial_type = "Intermediate" -> counters.intermediate

CounterIncremented(counters, polynomial_type) ==
    CASE polynomial_type = "Committed" -> [counters EXCEPT !.commit = @ + 1]
      [] polynomial_type = "Constant" -> [counters EXCEPT !.constant = @ + 1]
      [] polynomial_type = "Intermediate" -> [counters EXCEPT !.intermediate = @ + 1]

\* HashMap::insert: the entry of the key is replaced
Insert(map, key, v) == [k \in (DOMAIN map) \cup {key} |-> IF k = key THEN v ELSE map[k]]

IsNew_Unchecked(decls, name) == TRUE

\* mod.rs:210-211: insert(..).is_none(), asserted
IsNew(decls, name) == name \notin DOMAIN decls

\* the for loop of handle_polynomial_declaration (mod.rs:192-212) from name i on;
\* st = [declarations, counters, ok]; the loop ends at the first failed assert
RECURSIVE DeclareFrom(_, _, _, _)
DeclareFrom(i, polynomials, polynomial_type, st) ==
    IF i > Len(polynomials) THEN st
    ELSE LET id == Counter(st.counters, polynomial_type)
             poly == [id |-> id,
                      absolute_name |-> namespaced(polynomials[i].name),
                      degree |-> polynomial_degree,
                      poly_type |-> polynomial_type,
                      length |-> polynomials[i].array_size]
             after == [declarations |-> Insert(st.declarations, poly.absolute_name, poly),
                       counters |-> CounterIncremented(st.counters, polynomial_type),
                       ok |-> IsNew(st.declarations, poly.absolute_name)]
         IN  IF after.ok THEN DeclareFrom(i + 1, polynomials, polynomial_type, after)
             ELSE after

\* Context::handle_namespace (mod.rs:182-185): the degree is evaluated and
\* unwrapped before the namespace is set
handle_namespace(name, degree) ==
    /\ status = "running"
    /\ processed < MaxStatements
    /\ LET d == Unwrap(evaluate_expression(degree))
       IN  IF d.ok
           THEN /\ polynomial_degree' = d.v
                /\ namespace' = name
                /\ status' = "running"
           ELSE /\ status' = "failed"
                /\ UNCHANGED <<polynomial_degree, namespace>>
    /\ statement' = Some([t |-> "Namespace", name |-> name, degree |-> degree])
    /\ processed' = processed + 1
    /\ UNCHANGED <<declarations, commit_poly_counter, constant_poly_counter,
                   intermediate_poly_counter, constants, polynomial_identities,
                   plookup_identities>>
    /\ UNCHANGED solverVars

\* Context::handle_polynomial_declaration (mod.rs:187-213)
handle_polynomial_declaration(polynomials, polynomial_type) ==
    /\ status = "running"
    /\ processed < MaxStatements
    /\ LET st == DeclareFrom(1, polynomials, polynomial_type,
                             [declarations |-> declarations,
                              counters |-> [commit |-> commit_poly_counter,
                                            constant |-> constant_poly_counter,
                                            intermediate |-> intermediate_poly_counter],
                              ok |-> TRUE])
       IN  /\ declarations' = st.declarations
           /\ commit_poly_counter' = st.counters.commit
           /\ constant_poly_counter' = st.counters.constant
           /\ intermediate_poly_counter' = st.counters.intermediate
           /\ status' = IF st.ok THEN "running" ELSE "failed"
    /\ statement' = Some([t |-> "PolynomialDeclaration", polynomials |-> polynomials,
                          polynomial_type |-> polynomial_type])
    /\ processed' = processed + 1
    /\ UNCHANGED <<namespace, polynomial_degree, constants, polynomial_identities,
                   plookup_identities>>
    /\ UNCHANGED solverVars

\* Context::handle_polynomial_identity (mod.rs:215-218)
handle_polynomial_identity(expression) ==
    /\ status = "running"
    /\ processed < MaxStatements
    /\ LET expr == process_expression(expression)
       IN  IF expr.ok
           THEN /\ polynomial_identities' = Append(polynomial_identities, expr.v)
                /\ status' = "running"
           ELSE /\ status' = "failed"
                /\ UNCHANGED polynomial_identities
    /\ statement' = Some([t |-> "PolynomialIdentity", expression |-> expression])
    /\ processed' = processed + 1
    /\ UNCHANGED <<namespace, polynomial_degree, declarations, commit_poly_counter,
                   constant_poly_counter, intermediate_poly_counter, constants,
                   plookup_identities>>
    /\ UNCHANGED solverVars

\* the map over expr.expressions (mod.rs:250-254) from expression i on
RECURSIVE ProcessAll(_, _, _)
ProcessAll(i, expressions, done) ==
    IF i > Len(expressions) THEN Ok(done)
    ELSE LET e == process_expression(expressions[i])
         IN  IF ~e.ok THEN e ELSE ProcessAll(i + 1, expressions, Append(done, e.v))

\* Context::process_selected_expression (mod.rs:247-256)
process_selected_expression(expr) ==
    LET selector == IF expr.selector = None THEN Ok(None)
                    ELSE LET e == process_expression(expr.selector[1])
                         IN  IF e.ok THEN Ok(Some(e.v)) ELSE e
    IN  IF ~selector.ok THEN selector
        ELSE LET expressions == ProcessAll(1, expr.expressions, <<>>)
             IN  IF ~expressions.ok THEN expressions
                 ELSE Ok([selector |-> selector.v, expressions |-> expressions.v])

\* Context::handle_plookup_identity (mod.rs:220-229)
handle_plookup_identity(key, haystack) ==
    /\ status = "running"
    /\ processed < MaxStatements
    /\ LET k == process_selected_expression(key)
           h == process_selected_expression(haystack)
       IN  IF k.ok /\ h.ok
           THEN /\ plookup_identities' =
                      Append(plookup_identities, [key |-> k.v, haystack |-> h.v])
                /\ status' = "running"
           ELSE /\ status' = "failed"
                /\ UNCHANGED plookup_identities
    /\ statement' = Some([t |-> "PlookupIdentity", key |-> key, haystack |-> haystack])
    /\ processed' = processed + 1
    /\ UNCHANGED <<namespace, polynomial_degree, declarations, commit_poly_counter,
                   constant_poly_counter, intermediate_poly_counter, constants,
                   polynomial_identities>>
    /\ UNCHANGED solverVars

ConstantIsNew_Unchecked(consts, name) == TRUE

\* mod.rs:232-236: insert(..).is_none(), asserted
ConstantIsNew(consts, name) == name \notin DOMAIN consts

\* Context::handle_constant_definition (mod.rs:231-237): the value is
\* evaluated and unwrapped, then inserted, then the assert is made
handle_constant_definition(name, val) ==
    /\ status = "running"
    /\ processed < MaxStatements
    /\ LET v == Unwrap(evaluate_expression(val))
       IN  IF v.ok
           THEN /\ constants' = Insert(constants, name, v.v)
                /\ status' = IF ConstantIsNew(constants, name) THEN "running" ELSE "failed"
           ELSE /\ status' = "failed"
                /\ UNCHANGED constants
    /\ statement' = Some([t |-> "ConstantDefinition", name |-> name, value |-> val])
    /\ processed' = processed + 1
    /\ UNCHANGED <<namespace, polynomial_degree, declarations, commit_poly_counter,
                   constant_poly_counter, intermediate_poly_counter,
                   polynomial_identities, plookup_identities>>
    /\ UNCHANGED solverVars

(***************************************************************************)
(* The statements fed to the analyzer.                                     *)
(***************************************************************************)
PolynomialName(name) == [name |-> name, array_size |-> None]

NameLists == {<<PolynomialName("x")>>, <<PolynomialName("y")>>,
              <<PolynomialName("x"), PolynomialName("y")>>,
              <<PolynomialName("x"), PolynomialName("x")>>}

Namespaces == {<<"A", Number(4)>>, <<"B", Number(8)>>}

\* the solver is not running while the analyzer is
SolverIdle ==
    /\ fixed_cols = FixedColumns(Degree)
    /\ witness_cols = WitnessColumns(<<"x", "y">>)
    /\ identities = <<>>
    /\ machines = <<>>
    /\ query_callback = None
    /\ New

\* Context::new (mod.rs:133-138)
InitAnalyzer ==
    /\ AnalyzerIdle
    /\ SolverIdle

NextAnalyzer ==
    \/ \E ns \in Namespaces : handle_namespace(ns[1], ns[2]) /\ UNCHANGED fileVars
    \/ \E polynomials \in NameLists :
          handle_polynomial_declaration(polynomials, "Committed") /\ UNCHANGED fileVars
    \/ \E polynomials \in NameLists :
          handle_polynomial_declaration(polynomials, "Constant") /\ UNCHANGED fileVars

SpecAnalyzer == InitAnalyzer /\ [][NextAnalyzer]_vars

(***************************************************************************)
(* The statements of SpecConstants: constants, identities, namespaces.     *)
(***************************************************************************)
LocalX == AstPolynomialReference(None, "x", None, FALSE)

ConstantNamespaces == {<<"A", Number(4)>>, <<"B", Constant("N")>>}

ConstantDefinitions ==
    { <<"N", BinaryOperation(Number(2), "^", Number(4))>>,            \* N = 2^4
      <<"N", Number(3)>>,                                             \* N = 3
      <<"M", BinaryOperation(Constant("N"), "+", Number(1))>>,        \* M = N + 1
      <<"M", BinaryOperation(Number(0 - 7), "/", Number(2))>> }       \* M = -7 / 2

IdentityExpressions ==
    { BinaryOperation(LocalX, "-", Constant("N")),                    \* x - N
      Constant("N"),                                                  \* N
      BinaryOperation(Constant("N"), "*", Number(2)),                 \* N * 2
      BinaryOperation(AstPolynomialReference(Some("A"), "x", None, TRUE), "+",
                      BinaryOperation(Number(1), "+", Number(2))),    \* A.x' + (1 + 2)
      UnaryOperation("-", Number(1)),                                 \* -1
      BinaryOperation(LocalX, "*", UnaryOperation("-", LocalX)) }     \* x * -x

SelectedExpressions(selector, expressions) == [selector |-> selector, expressions |-> expressions]

Lookups ==
    { <<SelectedExpressions(Some(Constant("N")), <<LocalX>>),
        SelectedExpressions(None, <<AstPolynomialReference(Some("A"), "x", None, FALSE)>>)>> }

InitConstants ==
    /\ AnalyzerIdle
    /\ SolverIdle

NextConstants ==
    \/ \E ns \in ConstantNamespaces : handle_namespace(ns[1], ns[2]) /\ UNCHANGED fileVars
    \/ \E c \in ConstantDefinitions :
          handle_constant_definition(c[1], c[2]) /\ UNCHANGED fileVars
    \/ \E e \in IdentityExpressions : handle_polynomial_identity(e) /\ UNCHANGED fileVars
    \/ \E l \in Lookups : handle_plookup_identity(l[1], l[2]) /\ UNCHANGED fileVars
    \/ handle_polynomial_declaration(<<PolynomialName("x")>>, "Committed") /\ UNCHANGED fileVars

SpecConstants == InitConstants /\ [][NextConstants]_vars

(***************************************************************************)
(* Context::process_file and handle_include (mod.rs:140-180), step by      *)
(* step.  A path is a directory and a name; every file of the model is in  *)
(* the directory "/pil", and "./a.pil" is a second spelling of "a.pil".    *)
(***************************************************************************)
Path(dir, name) == [dir |-> dir, name |-> name]

\* dir.push(path) (mod.rs:177-178)
Push(dir, path) == Path(dir, path)

\* path.canonicalize().unwrap() (mod.rs:141): a missing file panics
canonicalize(path) ==
    LET plain == Path(path.dir, IF path.name = "./a.pil" THEN "a.pil" ELSE path.name)
    IN  IF plain \in DOMAIN files THEN Ok(plain) ELSE Err("panic: No such file or directory")

\* path.parent().unwrap() (mod.rs:148)
Parent(path) == path.dir

\* included_files after the guard of process_file (mod.rs:142-144): nothing
\* is inserted
IncludeGuard(included, path) == included

\* the frame of the innermost call of process_file
Top == stack[Len(stack)]

\* the statement the loop of the innermost call is at (mod.rs:150)
AtStatement(kind) ==
    /\ stack # <<>>
    /\ Top.pos <= Len(files[Top.path])
    /\ files[Top.path][Top.pos].t = kind

CurrentStatement == files[Top.path][Top.pos]

\* the stack with the loop of the innermost call moved on by one statement
Advanced == [stack EXCEPT ![Len(stack)].pos = @ + 1]

\* process_file up to the start of its loop (mod.rs:141-148), called with
\* the stack stk
process_file(path, stk) ==
    LET canonical == canonicalize(path)
    IN  IF ~canonical.ok
        THEN /\ status' = "failed"
             /\ stack' = stk
             /\ UNCHANGED <<included_files, current_dir, parsed>>
        ELSE IF canonical.v \in included_files
        THEN /\ status' = "running"
             /\ stack' = stk
             /\ UNCHANGED <<included_files, current_dir, parsed>>
        ELSE /\ Len(stk) < MaxDepth
             /\ status' = "running"
             /\ included_files' = IncludeGuard(included_files, canonical.v)
             /\ parsed' = Append(parsed, canonical.v)
             /\ current_dir' = Parent(canonical.v)
             /\ stack' = Append(stk, [path |-> canonical.v, pos |-> 1,
                                      old_current_dir |-> current_dir])

RootPath == Path("/pil", "main.pil")

\* analyze (mod.rs:9-13): Context::new, then process_file of the root
analyze ==
    /\ status = "running"
    /\ stack = <<>>
    /\ parsed = <<>>
    /\ process_file(RootPath, stack)
    /\ UNCHANGED <<namespace, polynomial_degree, declarations, commit_poly_counter,
                   constant_poly_counter, intermediate_poly_counter, statement,
                   processed, constants, polynomial_identities, plookup_identities, files>>
    /\ UNCHANGED solverVars

\* Context::handle_include (mod.rs:176-180), at Statement::Include
handle_include ==
    /\ status = "running"
    /\ AtStatement("Include")
    /\ process_file(Push(current_dir, CurrentStatement.path), Advanced)
    /\ statement' = Some(CurrentStatement)
    /\ UNCHANGED <<namespace, polynomial_degree, declarations, commit_poly_counter,
                   constant_poly_counter, intermediate_poly_counter,
                   processed, constants, polynomial_identities, plookup_identities, files>>
    /\ UNCHANGED solverVars

\* the other statements of the loop (mod.rs:153-169)
FileNamespace ==
    /\ AtStatement("Namespace")
    /\ handle_namespace(CurrentStatement.name, CurrentStatement.degree)
    /\ stack' = Advanced
    /\ UNCHANGED <<included_files, current_dir, files, parsed>>

FileCommitDeclaration ==
    /\ AtStatement("PolynomialCommitDeclaration")
    /\ handle_polynomial_declaration(CurrentStatement.polynomials, "Committed")
    /\ stack' = Advanced
    /\ UNCHANGED <<included_files, current_dir, files, parsed>>

FileIdentity ==
    /\ AtStatement("PolynomialIdentity")
    /\ handle_polynomial_identity(CurrentStatement.expression)
    /\ stack' = Advanced
    /\ UNCHANGED <<included_files, current_dir, files, parsed>>

FileConstantDefinition ==
    /\ AtStatement("ConstantDefinition")
    /\ handle_constant_definition(CurrentStatement.name, CurrentStatement.value)
    /\ stack' = Advanced
    /\ UNCHANGED <<included_files, current_dir, files, parsed>>

\* the end of the loop (mod.rs:173): current_dir is restored, the call returns
EndOfFile ==
    /\ status = "running"
    /\ stack # <<>>
    /\ Top.pos > Len(files[Top.path])
    /\ current_dir' = Top.old_current_dir
    /\ stack' = SubSeq(stack, 1, Len(stack) - 1)
    /\ UNCHANGED <<namespace, polynomial_degree, declarations, commit_poly_counter,
                   constant_poly_counter, intermediate_poly_counter, statement,
                   processed, status, constants, polynomial_identities,
                   plookup_identities, included_files, files, parsed>>
    /\ UNCHANGED solverVars

(***************************************************************************)
(* The file systems of SpecInclude.                                        *)
(***************************************************************************)
Include(path) == [t |-> "Include", path |-> path]

RootStatements ==
    { Include("a.pil"), Include("./a.pil"), Include("b.pil"), Include("missing.pil"),
      [t |-> "Namespace", name |-> "A", degree |-> Number(4)],
      [t |-> "PolynomialCommitDeclaration", polynomials |-> <<PolynomialName("y")>>] }

FilesA ==
    { <<[t |-> "PolynomialCommitDeclaration", polynomials |-> <<PolynomialName("x")>>]>>,
      <<[t |-> "PolynomialIdentity", expression |-> LocalX]>>,
      <<Include("main.pil")>> }

FilesB ==
    { <<Include("a.pil")>>,
      <<[t |-> "ConstantDefinition", name |-> "N", value |-> Number(3)]>> }

FileSystem(main, a, b) ==
    [p \in {Path("/pil", n) : n \in {"main.pil", "a.pil", "b.pil"}} |->
        CASE p.name = "main.pil" -> main
          [] p.name = "a.pil" -> a
          [] p.name = "b.pil" -> b]

InitInclude ==
    /\ ContextNew
    /\ SolverIdle
    /\ \E main \in ListsUpTo(RootStatements, MaxFileLen), a \in FilesA, b \in FilesB :
          files = FileSystem(main, a, b)

NextInclude ==
    \/ analyze
    \/ handle_include
    \/ FileNamespace
    \/ FileCommitDeclaration
    \/ FileIdentity
    \/ FileConstantDefinition
    \/ EndOfFile

SpecInclude == InitInclude /\ [][NextInclude]_vars

(***************************************************************************)
(* Properties of the analyzer.                                             *)
(***************************************************************************)
IsDeclaration(stmt) == stmt # None /\ stmt[1].t = "PolynomialDeclaration"

\* the absolute names a declaration statement declares, in the namespace n
DeclaredNames(stmt, n) == {n \o "." \o stmt[1].polynomials[i].name :
                              i \in 1 .. Len(stmt[1].polynomials)}

\* the statement repeats a name of the table, or one of its own
Redeclares(stmt, n, decls) ==
    \/ DeclaredNames(stmt, n) \cap DOMAIN decls # {}
    \/ Cardinality(DeclaredNames(stmt, n)) < Len(stmt[1].polynomials)

\* C10: while analysis has not failed, the declaration table holds one entry
\* per accepted declaration, under its own absolute name; a declaration
\* statement that repeats an absolute name makes analysis fail, and one that
\* does not is accepted, also when its local names are declared in another
\* namespace.
C10_NameUniqueness ==
    /\ [](status = "running" =>
            /\ \A n \in DOMAIN declarations : declarations[n].absolute_name = n
            /\ Cardinality(DOMAIN declarations)
                  = commit_poly_counter + constant_poly_counter + intermediate_poly_counter)
    /\ [][IsDeclaration(statement') /\ processed' = processed + 1 =>
            IF Redeclares(statement', namespace, declarations)
            THEN status' = "failed"
            ELSE /\ status' = "running"
                 /\ DOMAIN declarations'
                       = (DOMAIN declarations) \cup DeclaredNames(statement', namespace)
                 /\ \A n \in DOMAIN declarations : declarations'[n] = declarations[n]]_vars

C10_Witness ==
    /\ status = "running"
    /\ {"A.x", "B.x"} \subseteq DOMAIN declarations
    /\ declarations["A.x"].poly_type = declarations["B.x"].poly_type

StatementIs(stmt, kind) == stmt # None /\ stmt[1].t = kind

\* a statement was handled in this step
Handled(kind) == processed' = processed + 1 /\ StatementIs(statement', kind)

RECURSIVE HasPolynomialReference(_)
HasPolynomialReference(expr) ==
    CASE expr.t = "PolynomialReference" -> TRUE
      [] expr.t = "BinaryOperation" ->
            HasPolynomialReference(expr.l) \/ HasPolynomialReference(expr.r)
      [] expr.t = "UnaryOperation" -> HasPolynomialReference(expr.e)
      [] OTHER -> FALSE

\* the names of the scalar constants an expression refers to
RECURSIVE ConstantsOf(_)
ConstantsOf(expr) ==
    CASE expr.t = "Constant" -> {expr.name}
      [] expr.t = "BinaryOperation" -> ConstantsOf(expr.l) \cup ConstantsOf(expr.r)
      [] expr.t = "UnaryOperation" -> ConstantsOf(expr.e)
      [] OTHER -> {}

\* every sub-expression without a polynomial reference is a Number
RECURSIVE Collapsed(_)
Collapsed(expr) ==
    IF ~HasPolynomialReference(expr) THEN expr.t = "Number"
    ELSE CASE expr.t = "BinaryOperation" -> Collapsed(expr.l) /\ Collapsed(expr.r)
           [] expr.t = "UnaryOperation" -> Collapsed(expr.e)
           [] OTHER -> TRUE

\* C11: an identity expression without a polynomial reference, whose constants
\* are defined, is processed to a Number; and in every processed identity every
\* sub-expression without a polynomial reference is a Number.
C11_ConstantFolding ==
    /\ [](\A i \in 1 .. Len(polynomial_identities) : Collapsed(polynomial_identities[i]))
    /\ [][(/\ Handled("PolynomialIdentity")
           /\ ~HasPolynomialReference(statement'[1].expression)
           /\ ConstantsOf(statement'[1].expression) \subseteq DOMAIN constants) =>
            /\ status' = "running"
            /\ polynomial_identities'[Len(polynomial_identities')].t = "Number"]_vars

PolynomialTypes == {"Committed", "Constant", "Intermediate"}

Counters == [commit |-> commit_poly_counter, constant |-> constant_poly_counter,
             intermediate |-> intermediate_poly_counter]

\* the ids given so far to the declarations of a kind
IdsOf(decls, kind) == {decls[n].id : n \in {m \in DOMAIN decls : decls[m].poly_type = kind}}

\* C12: while analysis has not failed, the ids of the declarations of each kind
\* are 0 .. counter - 1 of that kind, each given once; an accepted declaration
\* statement gives its i-th name the id counter + i - 1 of its kind and leaves
\* the other counters alone; a Namespace statement leaves every counter alone.
C12_CounterIds ==
    /\ [](status = "running" =>
            \A kind \in PolynomialTypes :
               /\ IdsOf(declarations, kind) = 0 .. (Counter(Counters, kind) - 1)
               /\ Cardinality({n \in DOMAIN declarations : declarations[n].poly_type = kind})
                     = Counter(Counters, kind))
    /\ [][Handled("Namespace") =>
            UNCHANGED <<commit_poly_counter, constant_poly_counter,
                        intermediate_poly_counter>>]_vars
    /\ [][(Handled("PolynomialDeclaration") /\ status' = "running") =>
            LET polynomials == statement'[1].polynomials
                kind == statement'[1].polynomial_type
            IN  /\ \A i \in 1 .. Len(polynomials) :
                      LET poly == declarations'[namespace \o "." \o polynomials[i].name]
                      IN  /\ poly.id = Counter(Counters, kind) + i - 1
                          /\ poly.poly_type = kind
                /\ \A other \in PolynomialTypes \ {kind} :
                      Counter(Counters, other)' = Counter(Counters, other)]_vars

C12_Witness ==
    /\ status = "running"
    /\ {"A.x", "B.x"} \subseteq DOMAIN declarations
    /\ declarations["A.x"].poly_type = "Committed"
    /\ declarations["B.x"].poly_type = "Committed"
    /\ declarations["A.x"].id = 0
    /\ declarations["B.x"].id = 1
    /\ namespace = "B"

\* C13: no file is parsed twice: a file whose canonical path has already been
\* processed is not processed again, so its statements are handled once and no
\* file is on the call stack twice.
C13_IncludeGuard ==
    /\ \A i, j \in 1 .. Len(parsed) : parsed[i] = parsed[j] => i = j
    /\ \A i, j \in 1 .. Len(stack) : stack[i].path = stack[j].path => i = j

\* C19: the constant table is one table for all namespaces.  A
\* ConstantDefinition fails iff its value refers to a constant that is not
\* defined or its name is already in the table, whatever the namespace, and
\* otherwise adds its name with the value of its expression; a Namespace
\* statement leaves the table alone, and its degree, like the operands of a
\* binary operation of an identity, is evaluated with the constants defined by
\* earlier statements: analysis fails iff one of them is not defined.
C19_GlobalConstants ==
    /\ [][Handled("ConstantDefinition") =>
            LET name == statement'[1].name
                val == statement'[1].value
            IN  IF ~(ConstantsOf(val) \subseteq DOMAIN constants) \/ name \in DOMAIN constants
                THEN status' = "failed"
                ELSE /\ status' = "running"
                     /\ DOMAIN constants' = (DOMAIN constants) \cup {name}
                     /\ constants'[name] = evaluate_expression(val).v[1]
                     /\ \A n \in DOMAIN constants : constants'[n] = constants[n]]_vars
    /\ [][Handled("Namespace") =>
            LET degree == statement'[1].degree
            IN  /\ constants' = constants
                /\ status' = "running" <=> ConstantsOf(degree) \subseteq DOMAIN constants
                /\ (status' = "running" /\ degree.t = "Constant") =>
                       polynomial_degree' = constants[degree.name]]_vars
    /\ [][(Handled("PolynomialIdentity") /\ statement'[1].expression.t = "BinaryOperation") =>
            LET e == statement'[1].expression
            IN  /\ constants' = constants
                /\ ~(ConstantsOf(e) \subseteq DOMAIN constants) => status' = "failed"
                /\ e = BinaryOperation(Constant("N"), "*", Number(2)) /\ "N" \in DOMAIN constants =>
                       /\ status' = "running"
                       /\ polynomial_identities'[Len(polynomial_identities')]
                             = Number(constants["N"] * 2)]_vars

C19_Witness ==
    /\ status = "running"
    /\ namespace = "B"
    /\ constants = [n \in {"N"} |-> 16]
    /\ polynomial_degree = 16
    /\ StatementIs(statement, "PolynomialIdentity")
    /\ polynomial_identities = <<Number(32)>>

\* the polynomial references of an expression, processed or not
RECURSIVE ReferencesOf(_)
ReferencesOf(expr) ==
    CASE expr.t = "PolynomialReference" -> {expr}
      [] expr.t = "BinaryOperation" -> ReferencesOf(expr.l) \cup ReferencesOf(expr.r)
      [] expr.t = "UnaryOperation" -> ReferencesOf(expr.e)
      [] OTHER -> {}

\* the absolute name a reference of the source stands for in the namespace n
AbsoluteName(ref, n) == (IF ref.namespace = None THEN n ELSE ref.namespace[1]) \o "." \o ref.name

\* C20: namespace and degree are 'Global' and 0 before any statement and are
\* changed by Namespace statements only, to the name and the degree given; an
\* accepted declaration gives each polynomial the absolute name
\* '<namespace>.<local>' and the degree current at the declaration; an accepted
\* identity names each of its references '<explicit namespace>.<name>', or
\* '<namespace>.<name>' with the namespace current at the identity, and keeps
\* its shift.
C20_NamespaceInheritance ==
    /\ [](processed = 0 => namespace = "Global" /\ polynomial_degree = 0)
    /\ [][IF Handled("Namespace") /\ status' = "running"
          THEN /\ namespace' = statement'[1].name
               /\ polynomial_degree' = evaluate_expression(statement'[1].degree).v[1]
          ELSE UNCHANGED <<namespace, polynomial_degree>>]_vars
    /\ [][(Handled("PolynomialDeclaration") /\ status' = "running") =>
            \A i \in 1 .. Len(statement'[1].polynomials) :
               LET absolute == namespace \o "." \o statement'[1].polynomials[i].name
               IN  /\ absolute \in DOMAIN declarations'
                   /\ declarations'[absolute].absolute_name = absolute
                   /\ declarations'[absolute].degree = polynomial_degree]_vars
    /\ [][(Handled("PolynomialIdentity") /\ status' = "running") =>
            {<<ref.name, ref.next>> :
                ref \in ReferencesOf(polynomial_identities'[Len(polynomial_identities')])}
              = {<<AbsoluteName(ref, namespace), ref.next>> :
                    ref \in ReferencesOf(statement'[1].expression)}]_vars

C20_Witness ==
    /\ status = "running"
    /\ namespace = "A"
    /\ DOMAIN declarations = {"Global.x"}
    /\ declarations["Global.x"].degree = 0
    /\ polynomial_identities # <<>>
    /\ ReferencesOf(polynomial_identities[Len(polynomial_identities)])
          = {AnalyzedReference("A.x", None, FALSE)}

====
